---------------------------- MODULE Spec2Model ----------------------------
(***************************************************************************)
(* Sutra: the entitlement-gated Yantra API client (client.ts), the tool    *)
(* dispatcher (tools.ts) and the server startup (server.ts).               *)
(*                                                                         *)
(* Strings that the code searches with String.includes are modelled as     *)
(* sequences of tokens; "includes" is token membership, template literals  *)
(* are concatenations.                                                     *)
(***************************************************************************)
EXTENDS Integers, Sequences, FiniteSets, TLC

VARIABLES
    config,            \* YantraClient readonly fields: maxRetries, retryDelay, timeout
    now,               \* Math.floor(Date.now() / 1000)
    srv,               \* position of startServer, the entitlement or tier requests it
                       \* has made, and whether that request failed
    isHealthy,         \* startServer: const isHealthy
    entitlement,       \* startServer: const entitlement
    allowedToolNames,  \* startServer: const allowedToolNames (a Set)
    toolDefs,          \* startServer: const toolDefs (names of the listed definitions)
    tool,              \* the CallTool request being handled, and its result
    clientCalls,       \* client methods invoked by the current CallTool request
    req,               \* the YantraClient.request chain in flight
    methodResult,      \* what the current client method gave its caller
    fetchCount,        \* fetch invocations of the current client operation
    history,           \* what fetch answered, attempt by attempt
    delays,            \* the delays waited by the current client operation
    policy,            \* isEntitlementValid and getAllowedTools applied to entitlement
    listed,            \* the server's latest answer to a ListTools request
    sent,              \* the path, query string and JSON body of the latest client call
    requests           \* calls of YantraClient.request in flight side by side

vars == <<config, now, srv, isHealthy, entitlement, allowedToolNames, toolDefs,
          tool, clientCalls, req, methodResult, fetchCount, history, delays, policy, listed, sent,
          requests>>

---------------------------------------------------------------------------
\* Bounds of the model

MaxRetriesBound == 3
MaxRetryDelay == 2
MaxServerRetries == 1
MaxTime == 2
StartTime == 1
NumRequests == 2

---------------------------------------------------------------------------
\* client.ts constants

DEFAULT_TIMEOUT == 10000

retryableMessages == {"ECONNRESET", "ECONNREFUSED", "ETIMEDOUT", "ENOTFOUND", "ENETUNREACH"}

---------------------------------------------------------------------------
\* Values

Range(s) == {s[i] : i \in 1..Len(s)}

\* String.prototype.includes on a tokenised message
Includes(message, token) == token \in Range(message)

\* A thrown value: isError is "instanceof Error"
\* str is String(value)
MkError(name, message) ==
    [isError |-> TRUE, name |-> name, message |-> message, str |-> <<name, ":">> \o message]
\* A thrown plain object { message }: not an Error, String() gives [object Object]
NonError(message) ==
    [isError |-> FALSE, name |-> "", message |-> message, str |-> <<"[object Object]">>]
NoError == [isError |-> FALSE, name |-> "none", message |-> <<>>, str |-> <<>>]

\* The outcome of an async call: it returns a value or throws
NoValue == [kind |-> "none"]
Return(v) == [tag |-> "return", value |-> v, error |-> NoError]
Throw(e) == [tag |-> "throw", value |-> NoValue, error |-> e]
Retry == [tag |-> "retry", value |-> NoValue, error |-> NoError]

---------------------------------------------------------------------------
\* types.ts

ToolTier == {"free", "pro", "enterprise"}
EntitlementStatus == {"active", "trialing", "past_due", "canceled", "deleted"}

\* Entitlement objects; sub_id and org_id follow seats (one organisation per seat count)
Entitlement(seatCounts) ==
    [tier : ToolTier, status : EntitlementStatus, expires_at : 0..MaxTime, seats : seatCounts]

\* null
NULL == [kind |-> "null"]

---------------------------------------------------------------------------
\* tools.ts: the static catalog, in declaration order

ALL_TOOLS ==
    <<"mahakalp_sf_constraints", "mahakalp_sf_doc_search", "mahakalp_sf_releases",
      "mahakalp_sf_rules", "mahakalp_sf_patterns", "mahakalp_sf_decision_guides">>

FREE_TOOLS == <<"mahakalp_sf_constraints", "mahakalp_sf_doc_search", "mahakalp_sf_releases">>

PRO_TOOLS ==
    <<"mahakalp_sf_constraints", "mahakalp_sf_doc_search", "mahakalp_sf_releases",
      "mahakalp_sf_rules", "mahakalp_sf_patterns", "mahakalp_sf_decision_guides">>

\* Operation names a CallTool request may carry
ToolNames == Range(ALL_TOOLS) \cup {"unknown_tool"}

---------------------------------------------------------------------------
\* The remote API as the client sees it: what fetch can answer

ClientMethods ==
    {"healthCheck", "getEntitlement", "getTier", "getConstraints", "searchDocs",
     "getReleases", "queryRules", "searchPatterns", "searchDecisionGuides"}

\* tools lists a tier response may carry
TierToolLists ==
    {FREE_TOOLS, PRO_TOOLS, <<>>,
     <<"mahakalp_sf_constraints", "mahakalp_sf_rules">>,
     <<"mahakalp_sf_rules", "mahakalp_sf_rules", "unknown_tool">>}

EmptyBody == [kind |-> "empty", entitlement |-> NULL, tools |-> <<>>]
DataBody == [kind |-> "data", entitlement |-> NULL, tools |-> <<>>]
EntitlementBody(e) == [kind |-> "entitlement", entitlement |-> e, tools |-> <<>>]
TierBody(tier, t) == [kind |-> "tier", entitlement |-> NULL, tools |-> t, tier |-> tier]
BadJson == [kind |-> "unparseable", entitlement |-> NULL, tools |-> <<>>]

\* Parsed bodies of a 2xx answer, by the method that asked
BodiesFor(method) ==
    CASE method = "getEntitlement" ->
            {EntitlementBody(e) : e \in Entitlement({1})} \cup {EmptyBody}
      [] method = "getTier" -> {TierBody(tier, t) : tier \in {"free", "pro"}, t \in TierToolLists}
      [] OTHER -> {DataBody}

Response(ok, status, statusText, text, textFails, json) ==
    [kind |-> "response", ok |-> ok, status |-> status, statusText |-> statusText,
     text |-> text, textFails |-> textFails, json |-> json, error |-> NoError]
Reject(e) ==
    [kind |-> "reject", ok |-> FALSE, status |-> "", statusText |-> <<>>,
     text |-> <<>>, textFails |-> FALSE, json |-> BadJson, error |-> e]

HttpErrors == {<<"401", <<"Unauthorized">>>>, <<"502", <<"Bad Gateway">>>>}
BodyTexts == {<<>>, <<"denied">>, <<"upstream", "ECONNREFUSED">>}

AbortError == MkError("AbortError", <<"The operation was aborted.">>)

FetchResults(method) ==
    {Response(TRUE, "200", <<"OK">>, <<>>, FALSE, b) : b \in BodiesFor(method) \cup {BadJson}}
    \cup {Response(FALSE, h[1], h[2], t, FALSE, BadJson) : h \in HttpErrors, t \in BodyTexts}
    \cup {Response(FALSE, h[1], h[2], <<>>, TRUE, BadJson) : h \in HttpErrors}
    \cup {Reject(MkError("Error", <<"connect", sig>>)) : sig \in retryableMessages}
    \cup {Reject(MkError("TypeError", <<"fetch failed">>)),
          Reject(NonError(<<"ECONNRESET">>))}

\* The class of an answer, as kept in history
FetchKind(f) ==
    IF f.kind = "response"
    THEN (IF f.ok THEN "ok" ELSE "http_error")
    ELSE IF f.error = AbortError THEN "abort"
    ELSE IF f.error.isError /\ \E sig \in retryableMessages : Includes(f.error.message, sig)
         THEN "transient"
    ELSE "other"

---------------------------------------------------------------------------
\* client.ts: YantraClient.request, one attempt

\* isRetryableError (client.ts 236-242)
isRetryableError(error) ==
    IF error.isError
    THEN (\E msg \in retryableMessages : Includes(error.message, msg))
         \/ error.name = "AbortError"
    ELSE FALSE

\* The try block of request (client.ts 206-218): what one settled fetch becomes
TryBlock(f) ==
    IF f.kind = "reject" THEN Throw(f.error)
    ELSE IF ~f.ok
    THEN LET text == IF f.textFails THEN <<>> ELSE f.text
         IN  Throw(MkError("Error",
                 <<"Yantra API error", f.status, ":">>
                     \o (IF text # <<>> THEN text ELSE f.statusText)))
    ELSE IF f.json = BadJson THEN Throw(MkError("SyntaxError", <<"Unexpected token">>))
    ELSE Return(f.json)

TimeoutError ==
    MkError("Error", <<"Yantra API request timed out after", ToString(config.timeout), "ms">>)

\* CatchBlock retrying while attempt <= maxRetries
CatchBlock_OffByOne(error, attempt) ==
    IF error.isError /\ error.name = "AbortError" THEN Throw(TimeoutError)
    ELSE IF isRetryableError(error) /\ attempt <= config.maxRetries THEN Retry
    ELSE Throw(error)

\* CatchBlock without the AbortError branch
CatchBlock_NoTimeout(error, attempt) ==
    IF isRetryableError(error) /\ attempt < config.maxRetries THEN Retry
    ELSE Throw(error)

\* CatchBlock wrapping the error it gives up on
CatchBlock_Wrap(error, attempt) ==
    IF error.isError /\ error.name = "AbortError" THEN Throw(TimeoutError)
    ELSE IF isRetryableError(error) /\ attempt < config.maxRetries THEN Retry
    ELSE Throw(MkError("Error", <<"Request failed after retries:">> \o error.message))

\* CatchBlock retrying twice as long as configured
CatchBlock_DoubleBudget(error, attempt) ==
    IF error.isError /\ error.name = "AbortError" THEN Throw(TimeoutError)
    ELSE IF isRetryableError(error) /\ attempt < 2 * config.maxRetries THEN Retry
    ELSE Throw(error)

\* The catch block of request (client.ts 219-230)
CatchBlock(error, attempt) ==
    IF error.isError /\ error.name = "AbortError" THEN Throw(TimeoutError)
    ELSE IF isRetryableError(error) /\ attempt < config.maxRetries THEN Retry
    ELSE Throw(error)

\* The error bound by the catch clause (client.ts 219), if the try block threw
Caught(f) == IF TryBlock(f).tag = "throw" THEN TryBlock(f).error ELSE NoError

\* One attempt of request, from the settled fetch to return, throw or retry
Attempt(f, attempt) ==
    LET out == TryBlock(f)
    IN  IF out.tag = "return" THEN out ELSE CatchBlock(out.error, attempt)

\* A delay that doubles with every retry
BackoffDelay_Exponential(attempt) == config.retryDelay * 2 ^ attempt

\* The delay waited before the retry that follows attempt (client.ts 226)
BackoffDelay(attempt) == config.retryDelay * (attempt + 1)

---------------------------------------------------------------------------
\* client.ts: the methods startup uses, as functions of the request's outcome

\* getTier (client.ts 48-64)
FREE_FALLBACK == TierBody("free", FREE_TOOLS)

\* getTier without its catch
getTier_Rethrow(r) == r

\* getTier falling back to no tools at all
getTier_DenyAll(r) ==
    IF r.tag = "return" THEN Return(r.value) ELSE Return(TierBody("free", <<>>))

getTier(r) == IF r.tag = "return" THEN Return(r.value) ELSE Return(FREE_FALLBACK)

\* healthCheck (client.ts 70-77)
BoolValue(b) == [kind |-> "boolean", bool |-> b]
healthCheck(r) == IF r.tag = "return" THEN Return(BoolValue(TRUE)) ELSE Return(BoolValue(FALSE))

\* getEntitlement letting the request's failure through
getEntitlement_NoCatch(r) ==
    IF r.tag = "return"
    THEN Return(IF r.value.kind = "entitlement" THEN r.value.entitlement ELSE NULL)
    ELSE r

\* getEntitlement: the request is wrapped, and every failure or a response
\* without an entitlement resolves to null
getEntitlement(r) ==
    IF r.tag = "return"
    THEN Return(IF r.value.kind = "entitlement" THEN r.value.entitlement ELSE NULL)
    ELSE Return(NULL)

\* isEntitlementValid with the grace period ending after expires_at
isEntitlementValid_Inclusive(e, t) ==
    IF e = NULL THEN FALSE
    ELSE CASE e.status \in {"active", "trialing"} -> TRUE
           [] e.status = "canceled" -> e.expires_at >= t
           [] OTHER -> FALSE

\* isEntitlementValid: null is invalid, active and trialing are valid, canceled
\* is valid while expires_at is in the future, past_due and deleted are invalid
isEntitlementValid(e, t) ==
    IF e = NULL THEN FALSE
    ELSE CASE e.status \in {"active", "trialing"} -> TRUE
           [] e.status = "canceled" -> e.expires_at > t
           [] OTHER -> FALSE

\* getAllowedTools deciding by tier alone
getAllowedTools_TierOnly(e, t) ==
    IF e = NULL \/ e.tier = "free" THEN FREE_TOOLS ELSE PRO_TOOLS

\* getAllowedTools granting the full set to pro only
getAllowedTools_ProOnly(e, t) ==
    IF e = NULL \/ e.tier # "pro" \/ ~isEntitlementValid(e, t)
    THEN FREE_TOOLS
    ELSE PRO_TOOLS

\* getAllowedTools taking a canceled entitlement as valid whatever its expiry
getAllowedTools_IgnoreExpiry(e, t) ==
    IF e = NULL \/ e.tier = "free" \/ e.status \in {"past_due", "deleted"}
    THEN FREE_TOOLS
    ELSE PRO_TOOLS

\* getAllowedTools: the free names unless the entitlement is valid and paid
getAllowedTools(e, t) ==
    IF e = NULL \/ e.tier = "free" \/ ~isEntitlementValid(e, t)
    THEN FREE_TOOLS
    ELSE PRO_TOOLS

---------------------------------------------------------------------------
\* client.ts: the data methods, as the request each one builds

\* JavaScript values a parameter can hold
JsUndefined == [t |-> "undefined"]
JsNull == [t |-> "null"]
Str(s) == [t |-> "string", s |-> s]
Num(n) == [t |-> "number", n |-> n]
Bool(b) == [t |-> "boolean", b |-> b]
Arr(a) == [t |-> "array", a |-> a]

\* if (v)
Truthy(v) ==
    CASE v.t = "string" -> v.s # ""
      [] v.t = "number" -> v.n # 0
      [] v.t = "boolean" -> v.b
      [] v.t = "array" -> TRUE
      [] OTHER -> FALSE

\* v ?? d
Coalesce(v, d) == IF v.t \in {"undefined", "null"} THEN d ELSE v

\* v?.length
OptLength(v) ==
    CASE v.t = "array" -> Num(Len(v.a))
      [] v.t = "string" -> Num(IF v.s = "" THEN 0 ELSE 1)
      [] OTHER -> JsUndefined

\* a.join(',')
RECURSIVE JoinComma(_)
JoinComma(a) ==
    IF a = <<>> THEN ""
    ELSE IF Len(a) = 1 THEN a[1]
    ELSE a[1] \o "," \o JoinComma(Tail(a))

\* String(v), as URLSearchParams.set applies it to its value
StringOf(v) ==
    CASE v.t = "string" -> v.s
      [] v.t = "number" -> ToString(v.n)
      [] v.t = "boolean" -> (IF v.b THEN "true" ELSE "false")
      [] v.t = "array" -> JoinComma(v.a)
      [] OTHER -> v.t

\* if (cond) query.set(key, value)
SetIf(cond, key, value) == IF cond THEN <<<<key, value>>>> ELSE <<>>

\* JSON.stringify(body) (client.ts 187): a key whose value is undefined is left out
JsonStringify(body) == SelectSeq(body, LAMBDA kv : kv[2] # JsUndefined)

\* What a client method hands to get or post
Sent(method, params, query, body) ==
    [method |-> method, params |-> params, query |-> query, body |-> body]

NoParams == [query |-> JsUndefined]

\* healthCheck, getEntitlement, getTier: a GET without parameters (client.ts 60, 72)
StartupRequest(method) == Sent(method, NoParams, <<>>, <<>>)

\* getConstraints sending max_results whenever it was given
getConstraints_AlwaysMax(params) ==
    Sent("getConstraints", params,
         SetIf(Truthy(params.releaseId), "release_id", StringOf(params.releaseId))
         \o SetIf(Truthy(params.constraintType), "constraint_type",
                  StringOf(params.constraintType))
         \o SetIf(Truthy(OptLength(params.constraintIds)), "constraint_ids",
                  StringOf(params.constraintIds))
         \o SetIf(Truthy(params.context), "context", StringOf(params.context))
         \o SetIf(params.maxResults # JsUndefined, "max_results",
                  StringOf(params.maxResults)),
         <<>>)

\* getConstraints (client.ts 83-98)
getConstraints(params) ==
    Sent("getConstraints", params,
         SetIf(Truthy(params.releaseId), "release_id", StringOf(params.releaseId))
         \o SetIf(Truthy(params.constraintType), "constraint_type",
                  StringOf(params.constraintType))
         \o SetIf(Truthy(OptLength(params.constraintIds)), "constraint_ids",
                  StringOf(params.constraintIds))
         \o SetIf(Truthy(params.context), "context", StringOf(params.context))
         \o SetIf(Truthy(params.maxResults), "max_results", StringOf(params.maxResults)),
         <<>>)

\* searchDocs (client.ts 100-112)
searchDocs(params) ==
    Sent("searchDocs", params, <<>>,
         JsonStringify(<< <<"query", params.query>>,
                          <<"release_id", params.releaseId>>,
                          <<"topics", params.topics>>,
                          <<"max_results", Coalesce(params.maxResults, Num(5))>> >>))

\* getReleases (client.ts 114-125)
getReleases(params) ==
    Sent("getReleases", params,
         SetIf(Truthy(params.releaseId), "release_id", StringOf(params.releaseId))
         \o SetIf(Truthy(params.includeArchived), "include_archived", "true")
         \o SetIf(Truthy(params.listAll), "list_all", "true"),
         <<>>)

\* queryRules (client.ts 131-145)
queryRules(params) ==
    Sent("queryRules", params, <<>>,
         JsonStringify(<< <<"query", params.query>>,
                          <<"category", params.category>>,
                          <<"severity", params.severity>>,
                          <<"context", params.context>>,
                          <<"max_results", Coalesce(params.maxResults, Num(10))>> >>))

\* searchPatterns (client.ts 147-159)
searchPatterns(params) ==
    Sent("searchPatterns", params, <<>>,
         JsonStringify(<< <<"query", params.query>>,
                          <<"category", params.category>>,
                          <<"context", params.context>>,
                          <<"max_results", Coalesce(params.maxResults, Num(5))>> >>))

\* searchDecisionGuides (client.ts 161-173)
searchDecisionGuides(params) ==
    Sent("searchDecisionGuides", params, <<>>,
         JsonStringify(<< <<"query", params.query>>,
                          <<"category", params.category>>,
                          <<"context", params.context>>,
                          <<"max_results", Coalesce(params.maxResults, Num(5))>> >>))

---------------------------------------------------------------------------
\* tools.ts

RECURSIVE SelectSeq2(_, _)
\* Array.prototype.filter over the catalog, keeping the names in allowed
SelectSeq2(s, allowed) ==
    IF s = <<>> THEN <<>>
    ELSE (IF Head(s) \in allowed THEN <<Head(s)>> ELSE <<>>) \o SelectSeq2(Tail(s), allowed)

\* getToolDefinitions filtering the given list against the catalog
getToolDefinitions_FilterInput(allowedToolNames_) ==
    SelectSeq2(allowedToolNames_, Range(ALL_TOOLS))

\* getToolDefinitions (tools.ts 227-230); a definition is identified by its name
getToolDefinitions(allowedToolNames_) == SelectSeq2(ALL_TOOLS, Range(allowedToolNames_))

\* CallToolResult values
NoText == [format |-> "none", success |-> FALSE, error |-> <<>>, body |-> NoValue]
Envelope(message) == [format |-> "envelope", success |-> FALSE, error |-> message, body |-> NoValue]
JsonText(body) == [format |-> "json", success |-> TRUE, error |-> <<>>, body |-> body]
PlainText(words) == [format |-> "plain", success |-> FALSE, error |-> words, body |-> NoValue]

NullResult == [kind |-> "null", isError |-> FALSE, text |-> NoText]
Raised(e) == [kind |-> "raised", isError |-> TRUE, text |-> PlainText(e.message)]
Result(isError, text) == [kind |-> "result", isError |-> isError, text |-> text]

\* errorResult (tools.ts 432-438)
errorResult(error) ==
    LET message == IF error.isError THEN error.message ELSE error.str
    IN  Result(TRUE, Envelope(message))

\* JS falsiness of args.query
UNDEFINED == "<undefined>"
QueryArgs == {UNDEFINED, "", "apex"}
Falsy(v) == v \in {UNDEFINED, ""}

\* What a handler does before its first await: answer at once, or call the client
Answer(result) == [tag |-> "answer", result |-> result, method |-> "none"]
Call(method) == [tag |-> "call", result |-> NullResult, method |-> method]

QueryRequired == Result(TRUE, Envelope(<<"query is required">>))

\* handleRules without the check of query
handleRules_NoValidation(args) == Call("queryRules")

\* handleConstraints (tools.ts 271-290), handleReleases (320-337)
handleConstraints(args) == Call("getConstraints")
handleReleases(args) == Call("getReleases")

\* handleDocSearch (tools.ts 292-318), handleRules, handlePatterns, handleDecisionGuides
handleDocSearch(args) == IF Falsy(args.query) THEN Answer(QueryRequired) ELSE Call("searchDocs")
handleRules(args) == IF Falsy(args.query) THEN Answer(QueryRequired) ELSE Call("queryRules")
handlePatterns(args) == IF Falsy(args.query) THEN Answer(QueryRequired) ELSE Call("searchPatterns")
handleDecisionGuides(args) ==
    IF Falsy(args.query) THEN Answer(QueryRequired) ELSE Call("searchDecisionGuides")

\* handleToolCall treating a name outside the catalog as a constraints call
handleToolCall_NoDefault(name, args, allowed) ==
    IF name \notin allowed THEN Answer(NullResult)
    ELSE CASE name = "mahakalp_sf_doc_search" -> handleDocSearch(args)
           [] name = "mahakalp_sf_releases" -> handleReleases(args)
           [] name = "mahakalp_sf_rules" -> handleRules(args)
           [] name = "mahakalp_sf_patterns" -> handlePatterns(args)
           [] name = "mahakalp_sf_decision_guides" -> handleDecisionGuides(args)
           [] OTHER -> handleConstraints(args)

\* handleToolCall (tools.ts 236-265)
handleToolCall(name, args, allowed) ==
    IF name \notin allowed THEN Answer(NullResult)
    ELSE CASE name = "mahakalp_sf_constraints" -> handleConstraints(args)
           [] name = "mahakalp_sf_doc_search" -> handleDocSearch(args)
           [] name = "mahakalp_sf_releases" -> handleReleases(args)
           [] name = "mahakalp_sf_rules" -> handleRules(args)
           [] name = "mahakalp_sf_patterns" -> handlePatterns(args)
           [] name = "mahakalp_sf_decision_guides" -> handleDecisionGuides(args)
           [] OTHER -> Answer(NullResult)

\* args.key: undefined when the caller left the key out
Arg(args, key) == IF key \in DOMAIN args THEN args[key] ELSE JsUndefined

\* The client call a handler makes with the arguments it was given
\* (tools.ts 276-282, 305-310, 325-329, 356-362, 385-390, 413-418)
ClientRequest(name, args) ==
    CASE name = "mahakalp_sf_constraints" ->
            getConstraints([releaseId |-> Arg(args, "release_id"),
                            constraintType |-> Arg(args, "constraint_type"),
                            constraintIds |-> Arg(args, "constraint_ids"),
                            context |-> Arg(args, "context"),
                            maxResults |-> Arg(args, "max_results")])
      [] name = "mahakalp_sf_doc_search" ->
            searchDocs([query |-> Str(args.query),
                        releaseId |-> Arg(args, "release_id"),
                        topics |-> Arg(args, "topics"),
                        maxResults |-> Arg(args, "max_results")])
      [] name = "mahakalp_sf_releases" ->
            getReleases([releaseId |-> Arg(args, "release_id"),
                         includeArchived |-> Arg(args, "include_archived"),
                         listAll |-> Arg(args, "list_all")])
      [] name = "mahakalp_sf_rules" ->
            queryRules([query |-> Str(args.query),
                        category |-> Arg(args, "category"),
                        severity |-> Arg(args, "severity"),
                        context |-> Arg(args, "context"),
                        maxResults |-> Arg(args, "max_results")])
      [] name = "mahakalp_sf_patterns" ->
            searchPatterns([query |-> Str(args.query),
                            category |-> Arg(args, "category"),
                            context |-> Arg(args, "context"),
                            maxResults |-> Arg(args, "max_results")])
      [] OTHER ->
            searchDecisionGuides([query |-> Str(args.query),
                                  category |-> Arg(args, "category"),
                                  context |-> Arg(args, "context"),
                                  maxResults |-> Arg(args, "max_results")])

\* A handler without its catch
HandlerResult_NoCatch(r) ==
    IF r.tag = "return" THEN Result(FALSE, JsonText(r.value)) ELSE Raised(r.error)

\* The rest of a handler, once the client call settled (tools.ts 284-289 and alike)
HandlerResult(r) ==
    IF r.tag = "return" THEN Result(FALSE, JsonText(r.value)) ELSE errorResult(r.error)

\* The CallTool request handler's answer (server.ts 129-136)
CallToolResponse(name, result) ==
    IF result.kind = "null" THEN Result(TRUE, PlainText(<<"Unknown tool:", name>>)) ELSE result

---------------------------------------------------------------------------
\* State

IdleReq ==
    [pc |-> "idle", method |-> "none", attempt |-> 0, outcome |-> Retry, caught |-> NoError,
     timers |-> <<>>, aborted |-> {}]
IdleTool ==
    [pc |-> "idle", name |-> "none", args |-> [query |-> UNDEFINED],
     handled |-> NullResult, response |-> NullResult]

\* No ListTools request answered yet; the answer { tools: toolDefs } (server.ts 112-116)
NotListed == [kind |-> "none", tools |-> <<>>]
ListToolsResponse(defs) == [kind |-> "list", tools |-> defs]

\* No client call made yet
NothingSent == Sent("none", NoParams, <<>>, <<>>)

\* new YantraClient(config) (client.ts 32-38)
Configs ==
    [maxRetries : 0..MaxRetriesBound, retryDelay : 1..MaxRetryDelay, timeout : {DEFAULT_TIMEOUT}]
ServerConfigs ==
    [maxRetries : 0..MaxServerRetries, retryDelay : {1}, timeout : {DEFAULT_TIMEOUT}]

InitRest ==
    /\ isHealthy = FALSE
    /\ entitlement = NULL
    /\ allowedToolNames = {}
    /\ toolDefs = <<>>
    /\ tool = IdleTool
    /\ clientCalls = <<>>
    /\ req = IdleReq
    /\ methodResult = Retry
    /\ fetchCount = 0
    /\ history = <<>>
    /\ delays = <<>>
    /\ listed = NotListed
    /\ sent = NothingSent

IdlePolicy == [pc |-> "idle", valid |-> FALSE, tools |-> <<>>, at |-> 0, again |-> <<>>]

\* The server process: startServer is about to run
Init ==
    /\ config \in ServerConfigs
    /\ now = StartTime
    /\ srv \in [pc : {"start"}, variant : {"entitlement", "tier"},
                resolutions : {0}, failed : {FALSE}, tier : {"none"}]
    /\ policy = IdlePolicy
    /\ requests = <<>>
    /\ InitRest

\* A YantraClient on its own, its methods called directly
InitClient ==
    /\ config \in Configs
    /\ now = StartTime
    /\ srv = [pc |-> "none", variant |-> "client", resolutions |-> 0, failed |-> FALSE,
             tier |-> "none"]
    /\ policy = IdlePolicy
    /\ requests = <<>>
    /\ InitRest

\* A client method calls get or post, which calls request with attempt 0
\* (client.ts 179-211): the first fetch is under way
BeginRequest(method) ==
    /\ req' = [pc |-> "inflight", method |-> method, attempt |-> 0, outcome |-> Retry,
               caught |-> NoError, timers |-> <<"armed">>, aborted |-> {}]
    /\ methodResult' = Retry
    /\ fetchCount' = 1
    /\ history' = <<>>
    /\ delays' = <<>>

\* startServer up to its first await (server.ts 84-88, 176-180)
StartServer ==
    /\ srv.pc = "start"
    /\ IF srv.variant = "entitlement"
       THEN /\ BeginRequest("healthCheck")
            /\ sent' = StartupRequest("healthCheck")
            /\ srv' = [srv EXCEPT !.pc = "health"]
       ELSE /\ BeginRequest("getTier")
            /\ sent' = StartupRequest("getTier")
            /\ srv' = [srv EXCEPT !.pc = "tier", !.resolutions = srv.resolutions + 1]
    /\ UNCHANGED <<config, now, isHealthy, entitlement, allowedToolNames, toolDefs,
                   tool, clientCalls, policy, listed, requests>>

\* What the client method in flight gives its caller when its request settled with r
MethodOutcome(method, r) ==
    CASE method = "healthCheck" -> healthCheck(r)
      [] method = "getEntitlement" -> getEntitlement(r)
      [] method = "getTier" -> getTier(r)
      [] OTHER -> r

\* startServer giving up when the API is not reachable
AfterHealthCheck_AbortOnUnhealthy(m) ==
    IF m.tag = "throw" \/ ~m.value.bool
    THEN /\ srv' = [srv EXCEPT !.pc = "crashed"]
         /\ UNCHANGED <<isHealthy, entitlement, allowedToolNames, toolDefs, tool>>
    ELSE /\ isHealthy' = m.value.bool
         /\ srv' = [srv EXCEPT !.pc = "healthChecked"]
         /\ UNCHANGED <<entitlement, allowedToolNames, toolDefs, tool>>

\* startServer after await client.healthCheck() (server.ts 88-91)
AfterHealthCheck(m) ==
    IF m.tag = "throw"
    THEN /\ srv' = [srv EXCEPT !.pc = "crashed"]
         /\ UNCHANGED <<isHealthy, entitlement, allowedToolNames, toolDefs, tool>>
    ELSE /\ isHealthy' = m.value.bool
         /\ srv' = [srv EXCEPT !.pc = "healthChecked"]
         /\ UNCHANGED <<entitlement, allowedToolNames, toolDefs, tool>>

\* startServer asking for the entitlement again when it got none
AfterGetEntitlement_Refetch(m) ==
    IF m.tag = "throw"
    THEN /\ srv' = [srv EXCEPT !.pc = "crashed"]
         /\ UNCHANGED <<isHealthy, entitlement, allowedToolNames, toolDefs, tool>>
    ELSE IF m.value = NULL
    THEN /\ srv' = [srv EXCEPT !.pc = "healthChecked"]
         /\ UNCHANGED <<isHealthy, entitlement, allowedToolNames, toolDefs, tool>>
    ELSE /\ entitlement' = m.value
         /\ allowedToolNames' = Range(getAllowedTools(m.value, now))
         /\ toolDefs' = getToolDefinitions(getAllowedTools(m.value, now))
         /\ srv' = [srv EXCEPT !.pc = "resolved", !.failed = (req'.outcome.tag = "throw")]
         /\ UNCHANGED <<isHealthy, tool>>

\* startServer after await client.getEntitlement() (server.ts 95-106)
AfterGetEntitlement(m) ==
    IF m.tag = "throw"
    THEN /\ srv' = [srv EXCEPT !.pc = "crashed"]
         /\ UNCHANGED <<isHealthy, entitlement, allowedToolNames, toolDefs, tool>>
    ELSE /\ entitlement' = m.value
         /\ allowedToolNames' = Range(getAllowedTools(m.value, now))
         /\ toolDefs' = getToolDefinitions(getAllowedTools(m.value, now))
         /\ srv' = [srv EXCEPT !.pc = "resolved", !.failed = (req'.outcome.tag = "throw")]
         /\ UNCHANGED <<isHealthy, tool>>

\* startServer after await client.getTier() (server.ts 180-186)
AfterGetTier(m) ==
    IF m.tag = "throw"
    THEN /\ srv' = [srv EXCEPT !.pc = "crashed"]
         /\ UNCHANGED <<isHealthy, entitlement, allowedToolNames, toolDefs, tool>>
    ELSE /\ toolDefs' = getToolDefinitions(m.value.tools)
         /\ allowedToolNames' = Range(m.value.tools)
         /\ srv' = [srv EXCEPT !.pc = "resolved", !.failed = (req'.outcome.tag = "throw"),
                               !.tier = m.value.tier]
         /\ UNCHANGED <<isHealthy, entitlement, tool>>

\* The CallTool handler resolving the allow-set again on every call
AfterToolCall_Refresh(m) ==
    /\ tool' = [tool EXCEPT !.pc = "done",
                            !.handled = HandlerResult(m),
                            !.response = CallToolResponse(tool.name, HandlerResult(m))]
    /\ allowedToolNames' = Range(getAllowedTools(entitlement, now))
    /\ toolDefs' = getToolDefinitions(getAllowedTools(entitlement, now))
    /\ UNCHANGED <<srv, isHealthy, entitlement>>

\* A tool handler after its client call, then the CallTool handler (server.ts 129-136)
AfterToolCall(m) ==
    /\ tool' = [tool EXCEPT !.pc = "done",
                            !.handled = HandlerResult(m),
                            !.response = CallToolResponse(tool.name, HandlerResult(m))]
    /\ UNCHANGED <<srv, isHealthy, entitlement, allowedToolNames, toolDefs>>

\* The caller's continuation once its client method gave m
Settled(m) ==
    IF srv.variant = "client" \/ (srv.variant = "params" /\ tool.pc # "running")
    THEN UNCHANGED <<srv, isHealthy, entitlement, allowedToolNames, toolDefs, tool>>
    ELSE CASE req.method = "healthCheck" -> AfterHealthCheck(m)
           [] req.method = "getEntitlement" -> AfterGetEntitlement(m)
           [] req.method = "getTier" -> AfterGetTier(m)
           [] OTHER -> AfterToolCall(m)

\* One controller shared by every attempt of a request
ControllerOf_Shared(attempt) == 0

\* const controller = new AbortController() (client.ts 203): every call of
\* request, hence every attempt, makes its own
ControllerOf(attempt) == attempt

\* clearTimeout(timeoutId) (client.ts 231): a timer that already fired stays fired
ClearTimeout(timer) == IF timer = "armed" THEN "cleared" ELSE timer

\* request after its fetch settled with f (client.ts 207-233); fired: the
\* attempt's own timer fired and called controller.abort() (client.ts 204).
\* A retry leaves the attempt waiting in its catch block, its timer armed;
\* otherwise the finally block clears the timer.
AfterFetch(f, fired) ==
    LET r == Attempt(f, req.attempt)
        caught == Caught(f)
        timers == IF fired THEN [req.timers EXCEPT ![req.attempt + 1] = "fired"]
                  ELSE req.timers
        aborted == IF fired THEN req.aborted \cup {ControllerOf(req.attempt)}
                   ELSE req.aborted
    IN  /\ history' = Append(history, FetchKind(f))
        /\ IF r.tag = "retry"
           THEN /\ req' = [req EXCEPT !.pc = "backoff", !.caught = caught,
                                      !.timers = timers, !.aborted = aborted]
                /\ delays' = Append(delays, BackoffDelay(req.attempt))
                /\ UNCHANGED <<srv, isHealthy, entitlement, allowedToolNames, toolDefs,
                               tool, methodResult>>
           ELSE /\ req' = [req EXCEPT !.pc = "settled", !.outcome = r, !.caught = caught,
                                      !.timers = [timers EXCEPT ![req.attempt + 1] =
                                                     ClearTimeout(@)],
                                      !.aborted = aborted]
                /\ methodResult' = MethodOutcome(req.method, r)
                /\ delays' = delays
                /\ Settled(MethodOutcome(req.method, r))
        /\ UNCHANGED <<config, now, clientCalls, fetchCount, policy, listed, sent, requests>>

\* The fetch in flight resolves or rejects on its own; a fetch whose signal
\* (controller.signal, client.ts 211) is aborted rejects with an AbortError
FetchSettles ==
    /\ req.pc = "inflight"
    /\ IF ControllerOf(req.attempt) \in req.aborted
       THEN AfterFetch(Reject(AbortError), FALSE)
       ELSE \E f \in FetchResults(req.method) : AfterFetch(f, FALSE)

\* The attempt's timer fires first: controller.abort() rejects the fetch (client.ts 204)
TimerFires ==
    /\ req.pc = "inflight"
    /\ req.timers[req.attempt + 1] = "armed"
    /\ AfterFetch(Reject(AbortError), TRUE)

\* The timer of the attempt that waits in its catch block fires during the
\* backoff delay: controller.abort() on the controller of a fetch that
\* settled already (client.ts 204, 226)
StaleTimerFires ==
    /\ req.pc = "backoff"
    /\ req.timers[req.attempt + 1] = "armed"
    /\ req' = [req EXCEPT !.timers[req.attempt + 1] = "stale",
                          !.aborted = req.aborted \cup {ControllerOf(req.attempt)}]
    /\ UNCHANGED <<config, now, srv, isHealthy, entitlement, allowedToolNames, toolDefs,
                   tool, clientCalls, methodResult, fetchCount, history, delays, policy,
                   listed, sent, requests>>

\* The backoff delay elapses: request(path, init, attempt + 1) arms the next
\* attempt's timer and starts its fetch; `return` without await then runs
\* the waiting attempt's finally block, which clears its timer
\* (client.ts 226-227, 230-232)
DelayElapses ==
    /\ req.pc = "backoff"
    /\ req' = [req EXCEPT !.pc = "inflight", !.attempt = req.attempt + 1,
                          !.caught = NoError,
                          !.timers = Append([req.timers EXCEPT ![req.attempt + 1] =
                                                ClearTimeout(@)], "armed")]
    /\ fetchCount' = fetchCount + 1
    /\ UNCHANGED <<config, now, srv, isHealthy, entitlement, allowedToolNames, toolDefs,
                   tool, clientCalls, methodResult, history, delays, policy, listed, sent,
                   requests>>

\* startServer goes on to the entitlement (server.ts 95)
FetchEntitlement ==
    /\ srv.pc = "healthChecked"
    /\ BeginRequest("getEntitlement")
    /\ sent' = StartupRequest("getEntitlement")
    /\ srv' = [srv EXCEPT !.pc = "entitlement", !.resolutions = srv.resolutions + 1]
    /\ UNCHANGED <<config, now, isHealthy, entitlement, allowedToolNames, toolDefs,
                   tool, clientCalls, policy, listed, requests>>

\* Handlers registered and transport connected (server.ts 108-141, 188-221)
Connect ==
    /\ srv.pc = "resolved"
    /\ srv' = [srv EXCEPT !.pc = "serving"]
    /\ UNCHANGED <<config, now, isHealthy, entitlement, allowedToolNames, toolDefs,
                   tool, clientCalls, req, methodResult, fetchCount, history, delays, policy, listed, sent,
                   requests>>

\* handleToolCall(name, args, client, allowed) up to its first await
\* (tools.ts 236-265 and the handler it picks)
Dispatch(name, args, allowed) ==
    LET h == handleToolCall(name, args, allowed)
    IN  IF h.tag = "answer"
        THEN /\ tool' = [pc |-> "done", name |-> name, args |-> args,
                         handled |-> h.result,
                         response |-> CallToolResponse(name, h.result)]
             /\ clientCalls' = <<>>
             /\ sent' = NothingSent
             /\ req' = IdleReq
             /\ methodResult' = Retry
             /\ fetchCount' = 0
             /\ history' = <<>>
             /\ delays' = <<>>
        ELSE /\ tool' = [pc |-> "running", name |-> name, args |-> args,
                         handled |-> NullResult, response |-> NullResult]
             /\ clientCalls' = <<h.method>>
             /\ sent' = ClientRequest(name, args)
             /\ BeginRequest(h.method)

\* A CallTool request arrives (server.ts 119-137)
CallTool ==
    /\ srv.pc = "serving"
    /\ tool.pc # "running"
    /\ \E name \in ToolNames, q \in QueryArgs : Dispatch(name, [query |-> q], allowedToolNames)
    /\ UNCHANGED <<config, now, srv, isHealthy, entitlement, allowedToolNames, toolDefs,
                   policy, listed, requests>>

\* A ListTools handler that answers with the whole catalog
ListTools_WholeCatalog ==
    /\ srv.pc = "serving"
    /\ listed' = ListToolsResponse(ALL_TOOLS)
    /\ UNCHANGED <<config, now, srv, isHealthy, entitlement, allowedToolNames, toolDefs,
                   tool, clientCalls, req, methodResult, fetchCount, history, delays,
                   policy, sent, requests>>

\* A ListTools request arrives: { tools: toolDefs } (server.ts 112-116)
ListTools ==
    /\ srv.pc = "serving"
    /\ listed' = ListToolsResponse(toolDefs)
    /\ UNCHANGED <<config, now, srv, isHealthy, entitlement, allowedToolNames, toolDefs,
                   tool, clientCalls, req, methodResult, fetchCount, history, delays,
                   policy, sent, requests>>

\* The operation that calls a data method
ToolOf(method) ==
    CASE method = "getConstraints" -> "mahakalp_sf_constraints"
      [] method = "searchDocs" -> "mahakalp_sf_doc_search"
      [] method = "getReleases" -> "mahakalp_sf_releases"
      [] method = "queryRules" -> "mahakalp_sf_rules"
      [] method = "searchPatterns" -> "mahakalp_sf_patterns"
      [] OTHER -> "mahakalp_sf_decision_guides"

\* A client method called with a query and no optional parameter
PlainCall(method) ==
    IF method \in {"healthCheck", "getEntitlement", "getTier"}
    THEN StartupRequest(method)
    ELSE ClientRequest(ToolOf(method), [query |-> "apex"])

\* A method of the client is called directly
CallClient ==
    /\ srv.variant = "client"
    /\ req.pc \in {"idle", "settled"}
    /\ \E method \in ClientMethods : BeginRequest(method) /\ sent' = PlainCall(method)
    /\ UNCHANGED <<config, now, srv, isHealthy, entitlement, allowedToolNames, toolDefs,
                   tool, clientCalls, policy, listed, requests>>

Next ==
    \/ StartServer
    \/ FetchSettles
    \/ TimerFires
    \/ DelayElapses
    \/ FetchEntitlement
    \/ Connect
    \/ CallTool
    \/ ListTools

Spec == Init /\ [][Next]_vars

\* The clock of the machine the process runs on moves on
Tick ==
    /\ now < MaxTime
    /\ now' = now + 1
    /\ UNCHANGED <<config, srv, isHealthy, entitlement, allowedToolNames, toolDefs,
                   tool, clientCalls, req, methodResult, fetchCount, history, delays,
                   policy, listed, sent, requests>>

\* The server process over its lifetime, the clock running: a client that
\* makes one attempt per request (maxRetries: 0)
InitLifetime ==
    /\ Init
    /\ config.maxRetries = 0

NextLifetime ==
    \/ StartServer
    \/ FetchSettles
    \/ TimerFires
    \/ FetchEntitlement
    \/ Connect
    \/ CallTool
    \/ ListTools
    \/ Tick

SpecLifetime == InitLifetime /\ [][NextLifetime]_vars

NextClient ==
    \/ CallClient
    \/ FetchSettles
    \/ TimerFires
    \/ DelayElapses

SpecClient == InitClient /\ [][NextClient]_vars

\* The client on its own, every fetch settling or timing out and every
\* backoff delay elapsing: fetch is raced by the timer of client.ts 204, and
\* the delay is a setTimeout (client.ts 245-247)
SpecClientFair ==
    /\ InitClient
    /\ [][NextClient]_vars
    /\ WF_vars(FetchSettles \/ TimerFires)
    /\ WF_vars(DelayElapses)

\* The client on its own, timers of waiting attempts free to fire
NextTimers ==
    \/ CallClient
    \/ FetchSettles
    \/ TimerFires
    \/ DelayElapses
    \/ StaleTimerFires

SpecTimers == InitClient /\ [][NextTimers]_vars

---------------------------------------------------------------------------
\* Several calls of request in flight on one client

Requests == 1..NumRequests

IdleRequest ==
    [pc |-> "idle", method |-> "none", attempt |-> 0, fetches |-> 0, history |-> <<>>,
     delays |-> <<>>, last |-> Reject(NoError), outcome |-> Retry]

InitConcurrent ==
    /\ config \in Configs
    /\ now = StartTime
    /\ srv = [pc |-> "none", variant |-> "concurrent", resolutions |-> 0, failed |-> FALSE,
             tier |-> "none"]
    /\ policy = IdlePolicy
    /\ requests = [r \in Requests |-> IdleRequest]
    /\ InitRest

RECURSIVE TotalAttempts(_)
TotalAttempts(n) == IF n = 0 THEN 0 ELSE requests[n].attempt + TotalAttempts(n - 1)

\* One retry counter kept on the client and shared by every call
AttemptOf_Shared(r) == TotalAttempts(NumRequests)

\* The attempt parameter of this call of request (client.ts 191, 227)
AttemptOf(r) == requests[r].attempt

\* Everything but the calls in flight
NotRequests ==
    <<config, now, srv, isHealthy, entitlement, allowedToolNames, toolDefs, tool,
      clientCalls, req, methodResult, fetchCount, history, delays, policy, listed, sent>>

\* A data method is called while other calls may be in flight: request with
\* attempt 0, its first fetch under way (client.ts 179-211)
RequestBegins(r) ==
    /\ requests[r].pc = "idle"
    /\ requests' = [requests EXCEPT ![r] =
                        [IdleRequest EXCEPT !.pc = "inflight", !.method = "searchDocs",
                                            !.fetches = 1]]
    /\ UNCHANGED NotRequests

\* Call r after its fetch settled with f (client.ts 207-233)
RequestAfterFetch(r, f) ==
    LET result == Attempt(f, AttemptOf(r))
    IN  /\ requests' = [requests EXCEPT ![r] =
              IF result.tag = "retry"
              THEN [@ EXCEPT !.pc = "backoff",
                             !.history = Append(@, FetchKind(f)),
                             !.last = f,
                             !.delays = Append(@, BackoffDelay(AttemptOf(r)))]
              ELSE [@ EXCEPT !.pc = "settled",
                             !.history = Append(@, FetchKind(f)),
                             !.last = f,
                             !.outcome = result]]
        /\ UNCHANGED NotRequests

\* Fetch results of a call in flight beside others: a body, an HTTP error,
\* a transient rejection and another one
ConcurrentFetchResults ==
    {f \in FetchResults("searchDocs") :
        \/ f.kind = "response" /\ f.ok /\ f.json = DataBody
        \/ f.kind = "response" /\ ~f.ok /\ f.status = "502" /\ f.text = <<>> /\ ~f.textFails
        \/ f.kind = "reject" /\ f.error = MkError("Error", <<"connect", "ECONNRESET">>)
        \/ f.kind = "reject" /\ f.error = MkError("TypeError", <<"fetch failed">>)}

RequestFetchSettles ==
    \E r \in Requests :
        /\ requests[r].pc = "inflight"
        /\ \E f \in ConcurrentFetchResults : RequestAfterFetch(r, f)

\* The timer of call r fires: its own controller aborts its own fetch (client.ts 203-204)
RequestTimerFires ==
    \E r \in Requests :
        /\ requests[r].pc = "inflight"
        /\ RequestAfterFetch(r, Reject(AbortError))

\* The backoff delay of call r elapses: request(path, init, attempt + 1) (client.ts 226-227)
RequestDelayElapses ==
    \E r \in Requests :
        /\ requests[r].pc = "backoff"
        /\ requests' = [requests EXCEPT ![r] =
                            [@ EXCEPT !.pc = "inflight", !.attempt = @ + 1,
                                      !.fetches = @ + 1]]
        /\ UNCHANGED NotRequests

CallConcurrently ==
    /\ srv.variant = "concurrent"
    /\ \E r \in Requests : RequestBegins(r)

NextConcurrent ==
    \/ CallConcurrently
    \/ RequestFetchSettles
    \/ RequestTimerFires
    \/ RequestDelayElapses

SpecConcurrent == InitConcurrent /\ [][NextConcurrent]_vars

\* Arguments a caller may give an operation: left out, null, empty, or a value
StringArgs == {JsUndefined, JsNull, Str(""), Str("spring-26")}
NumberArgs == {JsUndefined, JsNull, Num(0), Num(10)}
ListArgs == {JsUndefined, JsNull, Str(""), Arr(<<>>), Arr(<<"a", "b">>)}
BoolArgs == {JsUndefined, Bool(FALSE), Bool(TRUE)}

\* The arguments of a CallTool request, by operation (tools.ts 31-217)
ToolArgs(name) ==
    CASE name = "mahakalp_sf_constraints" ->
            [query : {UNDEFINED}, release_id : StringArgs, constraint_type : StringArgs,
             constraint_ids : ListArgs, context : StringArgs, max_results : NumberArgs]
      [] name = "mahakalp_sf_doc_search" ->
            [query : {"apex"}, release_id : StringArgs, topics : ListArgs,
             max_results : NumberArgs]
      [] name = "mahakalp_sf_releases" ->
            [query : {UNDEFINED}, release_id : StringArgs, include_archived : BoolArgs,
             list_all : BoolArgs]
      [] name = "mahakalp_sf_rules" ->
            [query : {"apex"}, category : StringArgs, severity : StringArgs,
             context : StringArgs, max_results : NumberArgs]
      [] OTHER ->
            [query : {"apex"}, category : StringArgs, context : StringArgs,
             max_results : NumberArgs]

\* The parameter objects of getConstraints and getReleases as their types
\* allow them (client.ts 83-89, 114-118): each parameter left out, set to a
\* falsy value, or set to a value
ConstraintsParams ==
    [releaseId : {JsUndefined, Str(""), Str("spring-26")},
     constraintType : {JsUndefined, Str(""), Str("governor_limit")},
     constraintIds : {JsUndefined, Arr(<<>>), Arr(<<"a", "b">>)},
     context : {JsUndefined, Str(""), Str("apex")},
     maxResults : {JsUndefined, Num(0), Num(10)}]
ReleasesParams ==
    [releaseId : {JsUndefined, Str(""), Str("spring-26")},
     includeArchived : BoolArgs,
     listAll : BoolArgs]

\* handleToolCall or one of the client's data methods called once on a fresh
\* client that makes one attempt per request, with every combination of arguments
InitParams ==
    /\ config \in [maxRetries : {0}, retryDelay : {1}, timeout : {DEFAULT_TIMEOUT}]
    /\ now = StartTime
    /\ srv = [pc |-> "none", variant |-> "params", resolutions |-> 0, failed |-> FALSE,
             tier |-> "none"]
    /\ policy = IdlePolicy
    /\ requests = <<>>
    /\ InitRest

\* handleToolCall(name, args, client, ALL) (tools.test.ts 56-134)
HandleToolCall ==
    /\ srv.variant = "params"
    /\ tool.pc = "idle"
    /\ req.pc = "idle"
    /\ \E name \in Range(ALL_TOOLS) : \E args \in ToolArgs(name) :
           Dispatch(name, args, Range(ALL_TOOLS))
    /\ UNCHANGED <<config, now, srv, isHealthy, entitlement, allowedToolNames, toolDefs,
                   policy, listed, requests>>

\* client.getConstraints(params) or client.getReleases(params) (client.test.ts 70-126)
CallWithParams ==
    /\ srv.variant = "params"
    /\ tool.pc = "idle"
    /\ req.pc = "idle"
    /\ \/ \E params \in ConstraintsParams :
            BeginRequest("getConstraints") /\ sent' = getConstraints(params)
       \/ \E params \in ReleasesParams :
            BeginRequest("getReleases") /\ sent' = getReleases(params)
    /\ tool' = IdleTool
    /\ clientCalls' = <<>>
    /\ UNCHANGED <<config, now, srv, isHealthy, entitlement, allowedToolNames, toolDefs,
                   policy, listed, requests>>

NextParams ==
    \/ HandleToolCall
    \/ CallWithParams
    \/ FetchSettles
    \/ TimerFires

SpecParams == InitParams /\ [][NextParams]_vars

\* The entitlement policy on its own: any entitlement at any time
InitPolicy ==
    /\ config \in ServerConfigs
    /\ now \in 0..MaxTime
    /\ srv = [pc |-> "none", variant |-> "policy", resolutions |-> 0, failed |-> FALSE,
             tier |-> "none"]
    /\ policy = IdlePolicy
    /\ requests = <<>>
    /\ InitRest

\* The entitlement under test is set
SetEntitlement ==
    /\ srv.variant = "policy"
    /\ policy.pc = "idle"
    /\ entitlement = NULL
    /\ entitlement' \in Entitlement({1, 5})
    /\ UNCHANGED <<config, now, srv, isHealthy, allowedToolNames, toolDefs, tool,
                   clientCalls, req, methodResult, fetchCount, history, delays, policy, listed, sent,
                   requests>>

\* client.isEntitlementValid(entitlement) and client.getAllowedTools(entitlement)
ApplyPolicy ==
    /\ srv.variant = "policy"
    /\ policy.pc = "idle"
    /\ policy' = [pc |-> "applied",
                  valid |-> isEntitlementValid(entitlement, now),
                  tools |-> getAllowedTools(entitlement, now),
                  at |-> now,
                  again |-> <<>>]
    /\ UNCHANGED <<config, now, srv, isHealthy, entitlement, allowedToolNames, toolDefs,
                   tool, clientCalls, req, methodResult, fetchCount, history, delays,
                   listed, sent, requests>>

\* client.getAllowedTools(entitlement) once more, then or later
ApplyPolicyAgain ==
    /\ srv.variant = "policy"
    /\ policy.pc = "applied"
    /\ \E t \in now..MaxTime :
          /\ now' = t
          /\ policy' = [policy EXCEPT !.pc = "twice", !.again = getAllowedTools(entitlement, t)]
    /\ UNCHANGED <<config, srv, isHealthy, entitlement, allowedToolNames, toolDefs,
                   tool, clientCalls, req, methodResult, fetchCount, history, delays,
                   listed, sent, requests>>

NextPolicy ==
    \/ SetEntitlement
    \/ ApplyPolicy
    \/ ApplyPolicyAgain

SpecPolicy == InitPolicy /\ [][NextPolicy]_vars

---------------------------------------------------------------------------
\* Claims about the retry policy (SpecClient)

Last(seq) == seq[Len(seq)]
DataMethods ==
    {"getConstraints", "searchDocs", "getReleases", "queryRules", "searchPatterns",
     "searchDecisionGuides"}

\* Every attempt so far was answered by a transient-network rejection
AllTransient == history # <<>> /\ \A i \in 1..Len(history) : history[i] = "transient"

\* C1: with maxRetries = N, fetch is never invoked more than N+1 times by one
\* client operation; when every attempt fails with a transient-network error
\* the operation ends after exactly N+1 fetches, and request throws that
\* failure (a data method passes it on to its caller).
C1_RetryBound ==
    /\ fetchCount <= config.maxRetries + 1
    /\ (AllTransient /\ req.pc = "settled") =>
          /\ fetchCount = config.maxRetries + 1
          /\ req.outcome.tag = "throw"
          /\ isRetryableError(req.outcome.error)
          /\ (req.method \in DataMethods => methodResult = req.outcome)
    /\ (AllTransient /\ req.pc # "settled") => req.pc \in {"backoff", "inflight"}

C1_Witness ==
    /\ AllTransient
    /\ req.pc = "settled"
    /\ config.maxRetries = 2
    /\ fetchCount = 3
    /\ req.method = "searchDocs"
    /\ methodResult.tag = "throw"

\* C2: a non-success HTTP response is never retried: whenever fetch answered
\* with a non-success status, that answer is the last one of the operation
\* and the request has thrown.
C2_ApiErrorNeverRetried ==
    \A i \in 1..Len(history) :
        history[i] = "http_error" =>
            /\ i = Len(history)
            /\ req.pc = "settled"
            /\ req.outcome.tag = "throw"

\* C3: a timeout is retryable: when the attempt in progress was aborted by
\* its timer and fewer than maxRetries retries have been used, the request
\* is waiting the backoff delay before another attempt.
C3_TimeoutRetried ==
    (/\ history # <<>>
     /\ Len(history) = req.attempt + 1
     /\ Last(history) = "abort"
     /\ req.attempt < config.maxRetries)
        => req.pc = "backoff"

---------------------------------------------------------------------------
\* Claims about the entitlement policy (SpecPolicy)

\* C4: isEntitlementValid is true iff status is active or trialing, or status
\* is canceled and expires_at is strictly greater than now; it is false for
\* the absent entitlement, past_due, deleted, and canceled with expires_at <= now.
C4_IsEntitlementValid ==
    policy.pc = "applied" =>
        (policy.valid <=>
            /\ entitlement # NULL
            /\ \/ entitlement.status \in {"active", "trialing"}
               \/ entitlement.status = "canceled" /\ entitlement.expires_at > now)

C4_Witness ==
    /\ policy.pc = "applied"
    /\ entitlement # NULL
    /\ entitlement.status = "canceled"
    /\ entitlement.expires_at = now
    /\ ~policy.valid

\* An entitlement that is past_due, deleted, or canceled and past its expiry
InvalidEntitlement ==
    /\ entitlement # NULL
    /\ \/ entitlement.status \in {"past_due", "deleted"}
       \/ entitlement.status = "canceled" /\ entitlement.expires_at <= now

\* C5: for the absent entitlement, for tier free whatever its status, and for
\* an invalid entitlement at any tier, getAllowedTools returns exactly the
\* three free names, whatever the seats.
C5_FreeTools ==
    (/\ policy.pc = "applied"
     /\ \/ entitlement = NULL
        \/ entitlement.tier = "free"
        \/ InvalidEntitlement)
        => policy.tools =
              <<"mahakalp_sf_constraints", "mahakalp_sf_doc_search", "mahakalp_sf_releases">>

C5_Witness ==
    /\ policy.pc = "applied"
    /\ entitlement # NULL
    /\ entitlement.tier = "enterprise"
    /\ entitlement.seats = 5
    /\ entitlement.status = "canceled"
    /\ entitlement.expires_at < now
    /\ Len(policy.tools) = 3

\* C6: for a valid entitlement (active, trialing, or canceled with
\* expires_at > now) of tier pro or enterprise, getAllowedTools returns
\* exactly the six names of the full set.
C6_FullTools ==
    (/\ policy.pc = "applied"
     /\ entitlement # NULL
     /\ entitlement.tier \in {"pro", "enterprise"}
     /\ \/ entitlement.status \in {"active", "trialing"}
        \/ entitlement.status = "canceled" /\ entitlement.expires_at > now)
        => /\ Range(policy.tools) =
                {"mahakalp_sf_constraints", "mahakalp_sf_doc_search", "mahakalp_sf_releases",
                 "mahakalp_sf_rules", "mahakalp_sf_patterns", "mahakalp_sf_decision_guides"}
           /\ Len(policy.tools) = 6

C6_Witness ==
    /\ policy.pc = "applied"
    /\ entitlement # NULL
    /\ entitlement.tier = "enterprise"
    /\ entitlement.status = "canceled"
    /\ entitlement.expires_at > now
    /\ Len(policy.tools) = 6

---------------------------------------------------------------------------
\* Claims about getEntitlement (SpecClient)

\* C7: getEntitlement never raises: whatever its request came to, it resolves
\* to null, except that it resolves to the entitlement object when the
\* response carries one.
C7_GetEntitlementNeverRaises ==
    (req.method = "getEntitlement" /\ req.pc = "settled") =>
        /\ methodResult.tag = "return"
        /\ IF req.outcome.tag = "return" /\ req.outcome.value.kind = "entitlement"
           THEN methodResult.value = req.outcome.value.entitlement
           ELSE methodResult.value = NULL

C7_Witness ==
    /\ req.method = "getEntitlement"
    /\ req.pc = "settled"
    /\ req.outcome.tag = "throw"
    /\ Last(history) = "abort"
    /\ methodResult = Return(NULL)

---------------------------------------------------------------------------
\* Claims about the dispatcher (Spec)

Catalog == Range(ALL_TOOLS)
QueryTools ==
    {"mahakalp_sf_doc_search", "mahakalp_sf_rules", "mahakalp_sf_patterns",
     "mahakalp_sf_decision_guides"}

\* C8: handleToolCall returns null for every name that is not in the
\* allow-set, and for every name in the allow-set that is not one of the six
\* catalog operations; in both cases no client method is invoked.
C8_NullForDisallowedOrUnknown ==
    (tool.pc # "idle" /\ (tool.name \notin allowedToolNames \/ tool.name \notin Catalog)) =>
        /\ tool.pc = "done"
        /\ tool.handled.kind = "null"
        /\ clientCalls = <<>>
        /\ fetchCount = 0
        /\ req.pc = "idle"

C8_Witness ==
    /\ tool.pc = "done"
    /\ tool.name = "unknown_tool"
    /\ tool.name \in allowedToolNames
    /\ tool.args.query = "apex"
    /\ tool.handled.kind = "null"

\* The message errorResult reads from a thrown value
MessageOf(error) == IF error.isError THEN error.message ELSE <<"[object Object]">>

\* C9: for an allowed catalog operation, whatever the client call came to,
\* handleToolCall resolves to a result and never raises; a fault becomes a
\* result with isError = true whose text is {success:false, error:<message>}.
C9_FaultBecomesErrorResult ==
    (tool.pc = "done" /\ tool.name \in allowedToolNames /\ tool.name \in Catalog) =>
        /\ tool.handled.kind = "result"
        /\ tool.response = tool.handled
        /\ (req.pc = "settled" /\ req.outcome.tag = "throw") =>
              /\ tool.handled.isError
              /\ tool.handled.text.format = "envelope"
              /\ tool.handled.text.success = FALSE
              /\ tool.handled.text.error = MessageOf(req.outcome.error)
        /\ (req.pc = "settled" /\ req.outcome.tag = "return") =>
              /\ ~tool.handled.isError
              /\ tool.handled.text = JsonText(req.outcome.value)

C9_Witness ==
    /\ tool.pc = "done"
    /\ tool.name = "mahakalp_sf_constraints"
    /\ req.pc = "settled"
    /\ req.outcome.tag = "throw"
    /\ ~req.outcome.error.isError
    /\ tool.handled.isError

\* C10: a call of doc_search, rules, patterns or decision_guides whose query
\* is missing or empty returns {success:false, error:"query is required"}
\* with isError = true, and calls no client method and makes no fetch.
C10_QueryRequired ==
    (/\ tool.pc # "idle"
     /\ tool.name \in QueryTools
     /\ tool.name \in allowedToolNames
     /\ tool.args.query \in {UNDEFINED, ""})
        => /\ tool.pc = "done"
           /\ tool.handled.kind = "result"
           /\ tool.handled.isError
           /\ tool.handled.text.format = "envelope"
           /\ tool.handled.text.success = FALSE
           /\ tool.handled.text.error = <<"query is required">>
           /\ clientCalls = <<>>
           /\ fetchCount = 0

C10_Witness ==
    /\ tool.pc = "done"
    /\ tool.name = "mahakalp_sf_rules"
    /\ tool.args.query = ""
    /\ tool.handled.text.error = <<"query is required">>
    /\ clientCalls = <<>>

---------------------------------------------------------------------------
\* Claims about the allow-set fixed at startup (Spec)

\* C11: in every state after startup the server's allow-set is a subset of
\* the six catalog names, whichever way it was resolved (getAllowedTools,
\* the tier endpoint's tools list, or the free fallback).
C11_AllowedWithinCatalog ==
    srv.pc \in {"resolved", "serving"} => allowedToolNames \subseteq Catalog

StartupMethods == {"healthCheck", "getEntitlement", "getTier"}

\* C12: once startup has resolved the entitlement, no ListTools or CallTool
\* request and no passing of time changes the allow-set, the stored
\* entitlement or the listed tool definitions, every ListTools answer is the
\* list computed at startup, and no request after startup goes to the health,
\* entitlement or tier endpoint: a canceled entitlement whose expires_at
\* passes while the process runs keeps the set computed at startup.
C12_FixedAfterStartup ==
    [][srv.pc \in {"resolved", "serving"} =>
          /\ allowedToolNames' = allowedToolNames
          /\ toolDefs' = toolDefs
          /\ entitlement' = entitlement
          /\ listed'.kind = "list" => listed'.tools = toolDefs
          /\ (fetchCount' # fetchCount /\ fetchCount' > 0) => req'.method \notin StartupMethods]_vars

C12_Witness ==
    /\ srv.pc = "serving"
    /\ entitlement # NULL
    /\ entitlement.status = "canceled"
    /\ entitlement.tier = "pro"
    /\ entitlement.expires_at <= now
    /\ allowedToolNames = Range(PRO_TOOLS)
    /\ allowedToolNames # Range(getAllowedTools(entitlement, now))
    /\ listed = ListToolsResponse(getToolDefinitions(PRO_TOOLS))
    /\ tool.pc = "done"
    /\ tool.name = "mahakalp_sf_rules"
    /\ tool.handled.kind = "result"

---------------------------------------------------------------------------
\* Claims about the client's startup probes (SpecClient)

\* C13: getTier never throws: whatever its request came to (network error,
\* timeout, non-success status, unparseable body, retries exhausted) it
\* resolves to the free fallback, whose tier is free and whose tools are
\* exactly the three free names; when the request succeeded it resolves to
\* the server's response unchanged.
C13_GetTierNeverThrows ==
    (req.method = "getTier" /\ req.pc = "settled") =>
        /\ methodResult.tag = "return"
        /\ IF req.outcome.tag = "return"
           THEN methodResult.value = req.outcome.value
           ELSE /\ methodResult.value.tier = "free"
                /\ methodResult.value.tools =
                       <<"mahakalp_sf_constraints", "mahakalp_sf_doc_search",
                         "mahakalp_sf_releases">>

C13_Witness ==
    /\ req.method = "getTier"
    /\ req.pc = "settled"
    /\ req.outcome.tag = "throw"
    /\ config.maxRetries = 2
    /\ history = <<"transient", "transient", "transient">>
    /\ methodResult.tag = "return"
    /\ methodResult.value.tier = "free"

\* C14: healthCheck never throws and is a boolean probe: it gives true
\* whenever the health endpoint answered 2xx, whatever the response body,
\* and false for every failure.
C14_HealthCheckProbe ==
    (req.method = "healthCheck" /\ req.pc = "settled") =>
        /\ methodResult.tag = "return"
        /\ methodResult.value.bool <=> (Last(history) = "ok")

---------------------------------------------------------------------------
\* Claims about one request chain (SpecClient)

\* C15: the delay waited before the n-th retry (n = 1..maxRetries) is exactly
\* retryDelay * n; there is no delay before the first attempt and none after
\* the last failed attempt.
C15_LinearBackoff ==
    req.pc # "idle" =>
        /\ \A n \in 1..Len(delays) : delays[n] = config.retryDelay * n
        /\ Len(delays) <= config.maxRetries
        /\ Len(delays) = IF req.pc = "backoff" THEN fetchCount ELSE fetchCount - 1

C15_Witness ==
    /\ req.pc = "settled"
    /\ req.outcome.tag = "throw"
    /\ config.maxRetries = 3
    /\ config.retryDelay = 2
    /\ fetchCount = 4
    /\ delays = <<2, 4, 6>>

\* C16: when retries stop (budget exhausted or a failure that is not
\* retried), the error that reaches the caller is the error of the last
\* attempt made, unchanged: the error that attempt's catch clause received
\* or, for an attempt aborted by its timer, its timeout error (C17); it is
\* not wrapped, not aggregated with and not replaced by an earlier attempt's.
C16_LastErrorPropagated ==
    (req.pc = "settled" /\ req.outcome.tag = "throw") =>
        /\ Len(history) = req.attempt + 1
        /\ req.caught # NoError
        /\ req.outcome.error = (IF req.caught = AbortError THEN TimeoutError ELSE req.caught)
        /\ req.method \in DataMethods => methodResult = req.outcome

C16_Witness ==
    /\ req.pc = "settled"
    /\ req.method = "getConstraints"
    /\ config.maxRetries = 2
    /\ history = <<"transient", "http_error">>
    /\ req.caught = MkError("Error", <<"Yantra API error", "401", ":", "denied">>)
    /\ methodResult = Throw(req.caught)

TimedOutText == "Yantra API request timed out after"

\* C17: an attempt still in flight when its timer fires is aborted and ends
\* the request with the timeout error 'Yantra API request timed out after
\* <timeout>ms', which is neither a transient network error nor an ApiError;
\* an attempt that settled before its timer fired never gives a timeout error.
C17_TimeoutClassified ==
    /\ (history # <<>> /\ Len(history) = req.attempt + 1 /\ Last(history) = "abort") =>
          /\ req.pc = "settled"
          /\ req.outcome.tag = "throw"
          /\ req.outcome.error.isError
          /\ req.outcome.error.name = "Error"
          /\ req.outcome.error.message = <<TimedOutText, ToString(config.timeout), "ms">>
          /\ \A sig \in retryableMessages : ~Includes(req.outcome.error.message, sig)
          /\ ~Includes(req.outcome.error.message, "Yantra API error")
    /\ (req.pc = "settled" /\ req.outcome.tag = "throw" /\ Last(history) # "abort") =>
          ~Includes(req.outcome.error.message, TimedOutText)

C17_Witness ==
    /\ req.pc = "settled"
    /\ history = <<"transient", "abort">>
    /\ req.caught = AbortError
    /\ req.outcome.error.message = <<TimedOutText, "10000", "ms">>

\* C18: a non-success HTTP status always surfaces as an error carrying the
\* status code: the attempt that received it ends the request with the error
\* 'Yantra API error <status>: <text>' (an empty text, also when reading the
\* body failed, replaced by the status text), and a request that received a
\* non-success status never resolves with anything else.
C18_StatusSurfaces ==
    /\ (history # <<>> /\ Len(history) = req.attempt + 1 /\ Last(history) = "http_error") =>
          /\ req.pc = "settled"
          /\ req.outcome = Throw(req.caught)
          /\ req.caught.isError
          /\ req.caught.message[1] = "Yantra API error"
          /\ \E h \in HttpErrors : req.caught.message[2] = h[1]
    /\ (req.pc = "settled" /\ \E i \in 1..Len(history) : history[i] = "http_error") =>
          /\ req.outcome.tag = "throw"
          /\ Includes(req.outcome.error.message, "Yantra API error")

---------------------------------------------------------------------------
\* Claims about the parameters sent (SpecParams)

\* The parameters of getConstraints and getReleases, in the order of the claim
ParamOrder(s) ==
    IF s.method = "getConstraints"
    THEN << <<"release_id", s.params.releaseId>>,
            <<"constraint_type", s.params.constraintType>>,
            <<"constraint_ids", s.params.constraintIds>>,
            <<"context", s.params.context>>,
            <<"max_results", s.params.maxResults>> >>
    ELSE << <<"release_id", s.params.releaseId>>,
            <<"include_archived", s.params.includeArchived>>,
            <<"list_all", s.params.listAll>> >>

Keys(pairs) == [i \in 1..Len(pairs) |-> pairs[i][1]]

\* The parameter holds a value: a non-empty string, a non-empty list, a
\* number other than 0, true
HoldsValue(v) ==
    CASE v.t = "string" -> v.s # ""
      [] v.t = "number" -> v.n # 0
      [] v.t = "boolean" -> v.b
      [] v.t = "array" -> v.a # <<>>
      [] OTHER -> FALSE

\* The text of a parameter in the query string
QueryText(v) ==
    CASE v.t = "string" -> v.s
      [] v.t = "number" -> ToString(v.n)
      [] v.t = "array" -> JoinComma(v.a)
      [] OTHER -> "true"

ExpectedQuery(s) ==
    LET given == SelectSeq(ParamOrder(s), LAMBDA kv : HoldsValue(kv[2]))
    IN  [i \in 1..Len(given) |-> <<given[i][1], QueryText(given[i][2])>>]

\* C19 as stated: the query string of getConstraints and getReleases holds
\* exactly the parameters the caller set (gave any value other than
\* undefined or null), in the fixed order, and no others.
C19_ExactlySetParams ==
    sent.method \in {"getConstraints", "getReleases"} =>
        Keys(sent.query) =
            Keys(SelectSeq(ParamOrder(sent), LAMBDA kv : kv[2].t \notin {"undefined", "null"}))

\* C19: the query string of getConstraints and getReleases holds exactly the
\* parameters the caller set to a truthy value (a non-empty string, a
\* non-empty id list, a number other than 0, true) and no others, in the
\* fixed order release_id, constraint_type, constraint_ids (comma-joined),
\* context, max_results (respectively release_id, include_archived,
\* list_all); a parameter left unset, or set to '', [], 0 or false, never
\* appears.
C19_TruthyParams ==
    sent.method \in {"getConstraints", "getReleases"} =>
        /\ sent.query = ExpectedQuery(sent)
        /\ sent.body = <<>>

C19_Witness ==
    /\ tool.pc = "idle"
    /\ req.pc = "settled"
    /\ sent.method = "getConstraints"
    /\ sent.params.releaseId = Str("spring-26")
    /\ sent.params.constraintType = Str("")
    /\ sent.params.constraintIds = Arr(<<"a", "b">>)
    /\ sent.params.context = JsUndefined
    /\ sent.params.maxResults = Num(10)
    /\ sent.query = << <<"release_id", "spring-26">>, <<"constraint_ids", "a,b">>,
                       <<"max_results", "10">> >>

SearchMethods == {"searchDocs", "queryRules", "searchPatterns", "searchDecisionGuides"}

\* C20: for the four search operations the JSON body holds a key only for a
\* field the caller set (plus max_results, defaulted when unset): whatever
\* combination of optional filters is unset, an empty string or null in the
\* CallTool arguments, no field of the body is an empty string or null.
C20_NoEmptyOrNullField ==
    (tool.pc # "idle" /\ sent.method \in SearchMethods) =>
        /\ sent.body # <<>>
        /\ sent.body[1] = <<"query", Str(tool.args.query)>>
        /\ sent.body[Len(sent.body)][1] = "max_results"
        /\ \A i \in 1..Len(sent.body) :
              /\ sent.body[i][2] # Str("")
              /\ sent.body[i][2] # JsNull

---------------------------------------------------------------------------
\* Claims about the tool list and the startup of the server (Spec)

\* C21: getToolDefinitions(allowed) returns exactly the catalog entries whose
\* name is in allowed: every returned definition is a catalog entry with an
\* allowed name, every catalog entry with an allowed name is returned once
\* (duplicates in the input do not duplicate it), names outside the catalog
\* are ignored, and the empty list yields the empty result.
C21_ToolDefinitionsFiltered ==
    srv.pc \in {"resolved", "serving"} =>
        /\ Range(toolDefs) = allowedToolNames \cap Catalog
        /\ \A i, j \in 1..Len(toolDefs) : toolDefs[i] = toolDefs[j] => i = j
        /\ allowedToolNames = {} => toolDefs = <<>>

C21_Witness ==
    /\ srv.pc = "serving"
    /\ srv.variant = "tier"
    /\ allowedToolNames = {"mahakalp_sf_rules", "unknown_tool"}
    /\ toolDefs = <<"mahakalp_sf_rules">>

FreeNames == {"mahakalp_sf_constraints", "mahakalp_sf_doc_search", "mahakalp_sf_releases"}

---------------------------------------------------------------------------
\* Claims about getAllowedTools called twice (SpecPolicy)

\* C23 as stated: calling getAllowedTools twice with the same entitlement
\* yields the same set of names, for every entitlement including canceled
\* ones and the absent one.
C23_SameSetTwice ==
    policy.pc = "twice" => Range(policy.again) = Range(policy.tools)

\* The entitlement's grace period ended between the first and the second call
ExpiredBetweenCalls ==
    /\ entitlement # NULL
    /\ entitlement.tier \in {"pro", "enterprise"}
    /\ entitlement.status = "canceled"
    /\ policy.at < entitlement.expires_at
    /\ entitlement.expires_at <= now

\* C23: calling getAllowedTools twice with the same entitlement yields the
\* same set of names (compared as sets) for every entitlement, the absent one
\* included, unless it is a canceled pro or enterprise entitlement whose
\* expires_at passes between the two calls: then the first call yields the
\* six names and the second the three free names.
C23_SameSetUnlessExpired ==
    policy.pc = "twice" =>
        /\ ~ExpiredBetweenCalls => Range(policy.again) = Range(policy.tools)
        /\ ExpiredBetweenCalls =>
              /\ Range(policy.tools) = Range(PRO_TOOLS)
              /\ Range(policy.again) = Range(FREE_TOOLS)

C23_Witness ==
    /\ policy.pc = "twice"
    /\ entitlement # NULL
    /\ entitlement.status = "canceled"
    /\ entitlement.tier = "pro"
    /\ policy.at < now
    /\ entitlement.expires_at > now
    /\ Range(policy.again) = Range(policy.tools)
    /\ Len(policy.again) = 6

---------------------------------------------------------------------------
\* Claims about the process over its lifetime (Spec)

ProMethods == {"queryRules", "searchPatterns", "searchDecisionGuides"}

\* The process resolved its entitlement to absent, to tier free or to an
\* invalid one (by the entitlement endpoint, or by the tier endpoint's answer)
FreeProcess ==
    /\ srv.pc \in {"resolved", "serving"}
    /\ IF srv.variant = "entitlement"
       THEN \/ entitlement = NULL
            \/ entitlement.tier = "free"
            \/ ~isEntitlementValid(entitlement, now)
       ELSE srv.tier = "free"

\* C25: in a process whose entitlement resolved to absent, to tier free or to
\* an invalid entitlement, no tool call ever invokes queryRules,
\* searchPatterns or searchDecisionGuides, so no request goes to a pro-tier
\* endpoint.
C25_NoProCalls ==
    FreeProcess =>
        /\ req.method \notin ProMethods
        /\ sent.method \notin ProMethods
        /\ \A i \in 1..Len(clientCalls) : clientCalls[i] \notin ProMethods

\* The CallTool in hand was dispatched to a handler: handleToolCall gave
\* (or is about to give) a result that is not null
Dispatched == tool.pc = "running" \/ (tool.pc = "done" /\ tool.handled.kind # "null")

\* C26: listing and dispatch agree for the whole process lifetime: every
\* ListTools answer is the list computed at startup, a CallTool is dispatched
\* to a handler iff its name is in that list, and a name that is not listed
\* gets the 'Unknown tool' error result, plain text and not a
\* {success, error} envelope, without any client call.
C26_ListingMatchesDispatch ==
    /\ listed.kind = "list" => listed.tools = toolDefs
    /\ tool.pc # "idle" =>
          /\ srv.pc = "serving"
          /\ tool.name \in Range(toolDefs) <=> Dispatched
          /\ listed.kind = "list" => (tool.name \in Range(listed.tools) <=> Dispatched)
          /\ tool.name \notin Range(toolDefs) =>
                /\ tool.pc = "done"
                /\ tool.response = Result(TRUE, PlainText(<<"Unknown tool:", tool.name>>))
                /\ tool.response.text.format # "envelope"
                /\ clientCalls = <<>>

C26_Witness ==
    /\ srv.pc = "serving"
    /\ allowedToolNames = {"mahakalp_sf_rules", "unknown_tool"}
    /\ listed = ListToolsResponse(<<"mahakalp_sf_rules">>)
    /\ tool.pc = "done"
    /\ tool.name = "unknown_tool"
    /\ tool.response.isError
    /\ tool.response.text = PlainText(<<"Unknown tool:", "unknown_tool">>)

---------------------------------------------------------------------------
\* Claims about timers and cancellation (SpecTimers)

\* Attempts whose timer called controller.abort()
AbortedControllers ==
    {ControllerOf(i - 1) : i \in {j \in 1..Len(req.timers) : req.timers[j] \in {"fired", "stale"}}}

\* Every attempt has its own cancellation scope: a fetch is aborted by the
\* timer of its own attempt and by no other, and a request ends with the
\* timeout error only when the timer of its last attempt fired while that
\* attempt's fetch was in flight
OwnCancellationScope ==
    /\ Len(req.timers) = (IF req.pc = "idle" THEN 0 ELSE req.attempt + 1)
    /\ req.aborted = AbortedControllers
    /\ \A i \in 1..Len(history) : history[i] = "abort" <=> req.timers[i] = "fired"
    /\ req.pc = "inflight" =>
          /\ req.timers[req.attempt + 1] = "armed"
          /\ ControllerOf(req.attempt) \notin req.aborted
    /\ (req.pc = "settled" /\ req.outcome = Throw(TimeoutError)) =>
          req.timers[req.attempt + 1] = "fired"

\* C27 as stated: every attempt has its own cancellation scope, and the timer
\* of an earlier attempt stays armed through the backoff delay and the later
\* attempts, being cleared only when the whole retry chain unwinds.
C27_ClearedOnlyAtUnwind ==
    /\ OwnCancellationScope
    /\ req.pc \in {"inflight", "backoff"} =>
          \A i \in 1..Len(req.timers) : req.timers[i] # "cleared"

\* C27 (amended): every attempt has its own cancellation scope; the timer of
\* an earlier attempt is armed only during the backoff delay that follows
\* its attempt and is cleared as soon as the next attempt has started; when
\* it fires during that delay it aborts only the controller of its own,
\* already settled fetch: the later attempt starts with a controller that is
\* not aborted and its outcome is never turned into a timeout.
C27_OwnCancellationScope ==
    /\ OwnCancellationScope
    /\ \A i \in 1..Len(req.timers) :
          i < Len(req.timers) => req.timers[i] \in {"cleared", "stale"}
    /\ req.pc = "backoff" => req.timers[req.attempt + 1] \in {"armed", "stale"}
    /\ req.pc = "settled" => req.timers[req.attempt + 1] \in {"cleared", "fired"}

C27_Witness ==
    /\ req.pc = "settled"
    /\ req.outcome.tag = "return"
    /\ history = <<"transient", "transient", "ok">>
    /\ req.timers = <<"stale", "cleared", "cleared">>
    /\ req.aborted = {0}

---------------------------------------------------------------------------
\* Claims about calls in flight side by side (SpecConcurrent)

\* Call r has used its own retry budget, waited its own backoff delays and
\* got the result of its own last fetch, whatever the other calls did
OwnBudget(r) ==
    LET q == requests[r]
        n == Len(q.history)
    IN  q.pc # "idle" =>
            /\ q.fetches = q.attempt + 1
            /\ q.fetches <= config.maxRetries + 1
            /\ n = (IF q.pc = "inflight" THEN q.attempt ELSE q.attempt + 1)
            /\ \A i \in 1..n : i < n => q.history[i] = "transient"
            /\ q.delays = [i \in 1..Len(q.delays) |-> config.retryDelay * i]
            /\ Len(q.delays) = (IF q.pc = "backoff" THEN q.attempt + 1 ELSE q.attempt)
            /\ q.pc = "backoff" => (q.history[n] = "transient" /\ q.attempt < config.maxRetries)
            /\ q.pc = "settled" =>
                  /\ q.outcome = Attempt(q.last, n - 1)
                  /\ q.history[n] = FetchKind(q.last)
                  /\ q.history[n] = "transient" => q.fetches = config.maxRetries + 1
                  /\ q.outcome = Throw(TimeoutError) <=> q.history[n] = "abort"

\* C28: for any interleaving of the calls in flight on one client, every call
\* makes at most maxRetries+1 fetches, its retries, backoff delays and result
\* follow from its own attempts only, and a step of one call (a failure, a
\* timeout, a retry) leaves every other call as it was.
C28_RequestsIndependent ==
    /\ [](\A r \in Requests : OwnBudget(r))
    /\ [][\A r, q \in Requests :
             (requests'[r] # requests[r] /\ q # r) => requests'[q] = requests[q]]_vars

C28_Witness ==
    /\ config.maxRetries = 1
    /\ requests[1].pc = "settled"
    /\ requests[1].history = <<"transient", "transient">>
    /\ requests[1].outcome.tag = "throw"
    /\ requests[2].pc = "settled"
    /\ requests[2].history = <<"transient", "ok">>
    /\ requests[2].outcome.tag = "return"
    /\ requests[2].delays = <<config.retryDelay>>

---------------------------------------------------------------------------
\* Claims about termination (SpecClientFair)

\* C29: provided every fetch settles or has its timer fire and every backoff
\* delay elapses, every request settles, by returning or by throwing, after
\* at most maxRetries+1 fetch attempts and at most maxRetries backoff delays:
\* it never retries forever.
C29_EventuallySettles ==
    /\ [](/\ fetchCount <= config.maxRetries + 1
          /\ req.attempt <= config.maxRetries
          /\ Len(delays) <= config.maxRetries
          /\ req.pc = "settled" => req.outcome.tag \in {"return", "throw"})
    /\ (req.pc \in {"inflight", "backoff"}) ~> (req.pc = "settled")

C29_Witness ==
    /\ req.pc = "settled"
    /\ config.maxRetries = 3
    /\ history = <<"transient", "transient", "transient", "ok">>
    /\ fetchCount = 4
    /\ Len(delays) = 3
    /\ req.outcome.tag = "return"

---------------------------------------------------------------------------
\* Claims about the order of startup (Spec)

\* The steps of startServer, in the order of its statements
StartupOrder ==
    {<<"start", "health">>, <<"health", "healthChecked">>,
     <<"healthChecked", "entitlement">>, <<"entitlement", "resolved">>,
     <<"start", "tier">>, <<"tier", "resolved">>,
     <<"resolved", "serving">>}

\* C30: startup is ordered: the health check (where startup makes one)
\* completes, then the entitlement is resolved and the allow-set and the tool
\* list are computed together, and only then are the handlers registered and
\* the transport connected; nothing is listed or dispatched before that, so
\* never against an unresolved or half-computed allow-set; and a failed
\* health check stops none of the later steps.
C30_OrderedStartup ==
    /\ [](/\ srv.pc # "crashed"
          /\ srv.pc \in {"start", "health", "healthChecked", "entitlement", "tier"} =>
                (allowedToolNames = {} /\ toolDefs = <<>> /\ entitlement = NULL)
          /\ srv.pc \in {"start", "health"} => ~isHealthy
          /\ srv.pc # "serving" => (tool = IdleTool /\ listed = NotListed)
          /\ srv.pc \in {"start", "health", "healthChecked"} => req.method # "getEntitlement"
          /\ srv.pc \in {"resolved", "serving"} =>
                /\ Range(toolDefs) = allowedToolNames \cap Catalog
                /\ srv.variant = "entitlement" =>
                      allowedToolNames = Range(getAllowedTools(entitlement, now))
          /\ (srv.pc = "serving" /\ tool.pc = "idle" /\ listed = NotListed) =>
                (req.pc = "settled" /\ req.method \in {"getEntitlement", "getTier"}))
    /\ [][srv'.pc # srv.pc => <<srv.pc, srv'.pc>> \in StartupOrder]_vars

C30_Witness ==
    /\ srv.pc = "serving"
    /\ srv.variant = "entitlement"
    /\ ~isHealthy
    /\ entitlement # NULL
    /\ Len(toolDefs) = 6
    /\ tool.pc = "running"
    /\ tool.name = "mahakalp_sf_rules"

============================================================================
